---- MODULE Spec2Model ----
(***************************************************************************)
(* Claim verification pipeline (backend/routers/claims.py) and the harm    *)
(* classification engine (backend/services/harm_classifier.py).            *)
(*                                                                         *)
(* Numbers: a confidence returned by verdict synthesis is an integer in    *)
(* hundredths (85 is 0.85).  Inside the harm engine a category severity is *)
(* in hundredths, a weight in hundredths, a base severity in 1/10^4, a     *)
(* verdict multiplier in tenths, an adjusted severity in 1/10^5 and a      *)
(* classification confidence in 1/10^6, so that every product and sum of   *)
(* the code is an exact integer.  The code computes in binary floating     *)
(* point, whose sums of 0.1 and products can differ from these values by   *)
(* one unit in the last place.                                             *)
(***************************************************************************)
EXTENDS Integers, Sequences, FiniteSets, TLC

\* Bounds of the model.
MaxClaims == 1
MaxRuns == 2
MaxFragments == 4

\* Python's None; None and the empty string are the falsy text values.
None == "None"
Truthy(x) == x \notin {None, ""}

Min(a, b) == IF a <= b THEN a ELSE b
Max(a, b) == IF a >= b THEN a ELSE b
Take(s, n) == SubSeq(s, 1, Min(n, Len(s)))
Contains(s, x) == \E i \in 1..Len(s) : s[i] = x
VARIABLES
    claims,         \* Firestore collection "claims": claim_id -> document
    verifications,  \* Firestore collection "verifications": claim_id -> document
    queue,          \* Pub/Sub topic "claim-processing": published claim ids
    tasks,          \* BackgroundTasks scheduled by submit_claim
    runs,           \* invocations of process_claim_immediate, in start order
    resp,           \* claim_id -> response of the submit_claim request that made it
    rejected,       \* response of the latest submit_claim that created no claim
    harm_text,      \* harm engine input: pattern and keyword hits of the text
    harm_verdict,   \* harm engine input: the verdict argument
    harm_result,    \* value returned by the latest classify_harm call
    harm_first,     \* an earlier call on the same text that the caller kept
    stages          \* one invocation followed stage by stage through steps 1 to 8

pipeVars == <<claims, verifications, queue, tasks, runs, resp, rejected>>
harmVars == <<harm_text, harm_verdict, harm_result, harm_first>>
stageVars == <<stages>>
vars == <<claims, verifications, queue, tasks, runs, resp, rejected,
          harm_text, harm_verdict, harm_result, harm_first, stages>>

(***************************************************************************)
(* Harm classification engine                                              *)
(***************************************************************************)

\* What the detectors can see of a text: for each pattern list the number of
\* its patterns with at least one match, for each keyword list the number of
\* keywords present, and the two structural signals.
CountFields == {"health_patterns", "health_keywords", "violence_patterns",
                "financial_patterns", "conspiracy_keywords", "conspiracy_patterns",
                "discrimination_patterns", "urgency_patterns",
                "authority_patterns", "emotional_patterns"}

\* Size of each pattern list and keyword list.
ListSize == [health_patterns |-> 5, health_keywords |-> 17, violence_patterns |-> 5,
             financial_patterns |-> 6, conspiracy_keywords |-> 11,
             conspiracy_patterns |-> 4, discrimination_patterns |-> 3,
             urgency_patterns |-> 3, authority_patterns |-> 3,
             emotional_patterns |-> 3]

EmptyText == [health_patterns |-> 0, health_keywords |-> 0, violence_patterns |-> 0,
              financial_patterns |-> 0, conspiracy_keywords |-> 0,
              conspiracy_patterns |-> 0, discrimination_patterns |-> 0,
              urgency_patterns |-> 0, authority_patterns |-> 0,
              emotional_patterns |-> 0, long |-> FALSE, share |-> FALSE,
              is_str |-> TRUE]

\* A value that is not a str: the regular expression search and text.lower()
\* raise on it in the first detector.
NotAText == [EmptyText EXCEPT !.is_str = FALSE]

Fragments(t) ==
    t.health_patterns + t.health_keywords + t.violence_patterns
    + t.financial_patterns + t.conspiracy_keywords + t.conspiracy_patterns
    + t.discrimination_patterns + t.urgency_patterns + t.authority_patterns
    + t.emotional_patterns

_detect_health_claims(t) ==
    [detected |-> t.health_patterns > 0,
     severity |-> Min(100, 30 * t.health_patterns + Min(40, 10 * t.health_keywords))]

_detect_violence_content(t) ==
    [detected |-> t.violence_patterns > 0,
     severity |-> Min(100, 40 * t.violence_patterns)]

_detect_financial_scams(t) ==
    [detected |-> t.financial_patterns > 0,
     severity |-> Min(100, 25 * t.financial_patterns)]

_detect_conspiracy_elements(t) ==
    LET severity == Min(30, 10 * t.conspiracy_keywords) + 15 * t.conspiracy_patterns
    IN [detected |-> severity > 0, severity |-> Min(100, severity)]

_detect_discrimination(t) ==
    [detected |-> t.discrimination_patterns > 0,
     severity |-> Min(100, 30 * t.discrimination_patterns)]

_detect_urgency_tactics(t) ==
    [detected |-> t.urgency_patterns > 0,
     severity |-> Min(100, 10 * t.urgency_patterns)]

_detect_authority_claims(t) ==
    [detected |-> t.authority_patterns > 0,
     severity |-> Min(100, 15 * t.authority_patterns)]

_detect_emotional_tactics(t) ==
    [detected |-> t.emotional_patterns > 0,
     severity |-> Min(100, 10 * t.emotional_patterns)]

\* The indicator dictionary, in its insertion order.
IndicatorTypes == <<"health_misinformation", "violence_incitement", "financial_fraud",
                    "conspiracy_theories", "discriminatory_content",
                    "urgency_manipulation", "authority_impersonation",
                    "emotional_manipulation">>

_analyze_harm_indicators(t) ==
    [health_misinformation |-> _detect_health_claims(t),
     violence_incitement |-> _detect_violence_content(t),
     financial_fraud |-> _detect_financial_scams(t),
     conspiracy_theories |-> _detect_conspiracy_elements(t),
     discriminatory_content |-> _detect_discrimination(t),
     urgency_manipulation |-> _detect_urgency_tactics(t),
     authority_impersonation |-> _detect_authority_claims(t),
     emotional_manipulation |-> _detect_emotional_tactics(t)]

\* severity_weights.get(indicator_type.split('_')[0], 0.5)
severity_weights == [health |-> 90, violence |-> 95, financial |-> 70,
                     political |-> 60, social |-> 50, conspiracy |-> 40]

SplitFirst == [health_misinformation |-> "health", violence_incitement |-> "violence",
               financial_fraud |-> "financial", conspiracy_theories |-> "conspiracy",
               discriminatory_content |-> "discriminatory",
               urgency_manipulation |-> "urgency",
               authority_impersonation |-> "authority",
               emotional_manipulation |-> "emotional"]

WeightOf(indicator_type) ==
    IF SplitFirst[indicator_type] \in DOMAIN severity_weights
    THEN severity_weights[SplitFirst[indicator_type]]
    ELSE 50

\* Variant that adds the severity of every category, detected or not.
_calculate_base_severity_undetected_counted(harm_indicators) ==
    LET contribution(k) == harm_indicators[k].severity * WeightOf(k)
        Sum[i \in 0..Len(IndicatorTypes)] ==
            IF i = 0 THEN 0 ELSE Sum[i - 1] + contribution(IndicatorTypes[i])
    IN Min(10000, Sum[Len(IndicatorTypes)])

_calculate_base_severity(harm_indicators) ==
    LET contribution(k) == IF harm_indicators[k].detected
                           THEN harm_indicators[k].severity * WeightOf(k)
                           ELSE 0
        Sum[i \in 0..Len(IndicatorTypes)] ==
            IF i = 0 THEN 0 ELSE Sum[i - 1] + contribution(IndicatorTypes[i])
    IN Min(10000, Sum[Len(IndicatorTypes)])

\* Variant whose default multiplier raises the severity.
_get_verdict_multiplier_default_raises(verdict) ==
    CASE verdict = "false" -> 10
      [] verdict = "misleading" -> 8
      [] verdict = "unverified" -> 6
      [] verdict = "true" -> 2
      [] OTHER -> 15

\* Variant with the multiplier of "unverified" for the verdict "true" too.
_get_verdict_multiplier_true_as_unverified(verdict) ==
    CASE verdict = "false" -> 10
      [] verdict = "misleading" -> 8
      [] verdict = "unverified" -> 6
      [] verdict = "true" -> 6
      [] OTHER -> 5

\* verdict.lower() maps the four verdicts to themselves; any other string
\* takes the default multiplier.
_get_verdict_multiplier(verdict) ==
    CASE verdict = "false" -> 10
      [] verdict = "misleading" -> 8
      [] verdict = "unverified" -> 6
      [] verdict = "true" -> 2
      [] OTHER -> 5

VeryHarmfulThreshold == 70000
BasicThreshold == 30000

_determine_harm_level_strict(severity_score) ==
    IF severity_score > VeryHarmfulThreshold THEN "very_harmful"
    ELSE IF severity_score > BasicThreshold THEN "basic"
    ELSE "harmless"

_determine_harm_level(severity_score) ==
    IF severity_score >= VeryHarmfulThreshold THEN "very_harmful"
    ELSE IF severity_score >= BasicThreshold THEN "basic"
    ELSE "harmless"

\* indicator_type.replace('_', ' ').title()
TitleOf == [health_misinformation |-> "Health Misinformation",
            violence_incitement |-> "Violence Incitement",
            financial_fraud |-> "Financial Fraud",
            conspiracy_theories |-> "Conspiracy Theories",
            discriminatory_content |-> "Discriminatory Content",
            urgency_manipulation |-> "Urgency Manipulation",
            authority_impersonation |-> "Authority Impersonation",
            emotional_manipulation |-> "Emotional Manipulation"]

_identify_risk_factors(t, harm_indicators) ==
    LET listed(k) == harm_indicators[k].detected /\ harm_indicators[k].severity > 30
        categories == SelectSeq(IndicatorTypes, listed)
        titles == [i \in 1..Len(categories) |-> TitleOf[categories[i]]]
        risk_factors == titles
                        \o (IF t.long THEN <<"Long-form content">> ELSE <<>>)
                        \o (IF t.share THEN <<"Viral spread potential">> ELSE <<>>)
    IN Take(risk_factors, 5)

_generate_suggested_actions(harm_level, risk_factors, verdict) ==
    LET tier ==
            IF harm_level = "very_harmful"
            THEN <<"Do not share this content",
                   "Report to platform moderators",
                   "Consider reporting to relevant authorities">>
                 \o (IF Contains(risk_factors, "Health Misinformation")
                     THEN <<"Consult healthcare professionals for medical advice">>
                     ELSE <<>>)
                 \o (IF Contains(risk_factors, "Violence Incitement")
                     THEN <<"Report to law enforcement if threats are credible">>
                     ELSE <<>>)
            ELSE IF harm_level = "basic"
            THEN <<"Share with caution and provide context",
                   "Include fact-check explanation when sharing",
                   "Encourage others to verify information">>
            ELSE <<"Safe to share with fact-check context",
                   "Use as educational example of misinformation">>
        addendum ==
            IF verdict = "false" THEN <<"Share correct information instead">>
            ELSE IF verdict = "misleading"
            THEN <<"Provide complete context and missing information">>
            ELSE <<>>
    IN Take(tier \o addendum, 4)

escalation_triggers == {"Violence Incitement", "Health Misinformation",
                        "Discriminatory Content"}

\* Variant that escalates on the harm level alone.
_requires_escalation_level_only(harm_level, risk_factors) ==
    harm_level = "very_harmful"

_requires_escalation(harm_level, risk_factors) ==
    \/ harm_level = "very_harmful"
    \/ \E i \in 1..Len(risk_factors) : risk_factors[i] \in escalation_triggers

\* Variant without the upper limit on the confidence.
_calculate_confidence_uncapped(harm_indicators, severity_score) ==
    LET detected_count ==
            Cardinality({k \in DOMAIN harm_indicators : harm_indicators[k].detected})
    IN IF detected_count = 0 THEN 900000
       ELSE 600000 + detected_count * 100000 + severity_score * 3

_calculate_confidence(harm_indicators, severity_score) ==
    LET detected_count ==
            Cardinality({k \in DOMAIN harm_indicators : harm_indicators[k].detected})
    IN IF detected_count = 0 THEN 900000
       ELSE Min(950000, 600000 + detected_count * 100000 + severity_score * 3)

_create_fallback_classification ==
    [level |-> "basic",
     confidence |-> 300000,
     severity_score |-> 50000,
     risk_factors |-> <<"Analysis unavailable">>,
     suggested_actions |-> <<"Verify information before sharing",
                             "Consult multiple reliable sources">>,
     escalation_required |-> FALSE]

\* A verdict that is not a string makes verdict.lower() raise inside the try
\* block, and the handler returns the fallback classification.
NotAString == "<not a str>"

\* Variant of a service instance that remembers the verdict of its previous
\* call: after a call with the verdict false it reports the highest
\* confidence.
classify_harm_stateful(claim_text, verdict) ==
    IF verdict = NotAString THEN _create_fallback_classification
    ELSE
    LET harm_indicators == _analyze_harm_indicators(claim_text)
        base_severity == _calculate_base_severity(harm_indicators)
        adjusted_severity == base_severity * _get_verdict_multiplier(verdict)
        harm_level == _determine_harm_level(adjusted_severity)
        risk_factors == _identify_risk_factors(claim_text, harm_indicators)
    IN [level |-> harm_level,
        confidence |-> IF harm_verdict = "false" THEN 950000
                       ELSE _calculate_confidence(harm_indicators, adjusted_severity),
        severity_score |-> adjusted_severity,
        risk_factors |-> risk_factors,
        suggested_actions |-> _generate_suggested_actions(harm_level, risk_factors, verdict),
        escalation_required |-> _requires_escalation(harm_level, risk_factors)]

\* Variant without the try block: the exception reaches the caller.
classify_harm_unguarded(claim_text, verdict) ==
    IF verdict = NotAString THEN [raised |-> "AttributeError"]
    ELSE
    LET harm_indicators == _analyze_harm_indicators(claim_text)
        base_severity == _calculate_base_severity(harm_indicators)
        adjusted_severity == base_severity * _get_verdict_multiplier(verdict)
        harm_level == _determine_harm_level(adjusted_severity)
        risk_factors == _identify_risk_factors(claim_text, harm_indicators)
    IN [level |-> harm_level,
        confidence |-> _calculate_confidence(harm_indicators, adjusted_severity),
        severity_score |-> adjusted_severity,
        risk_factors |-> risk_factors,
        suggested_actions |-> _generate_suggested_actions(harm_level, risk_factors, verdict),
        escalation_required |-> _requires_escalation(harm_level, risk_factors)]

classify_harm(claim_text, verdict) ==
    IF ~claim_text.is_str \/ verdict = NotAString THEN _create_fallback_classification
    ELSE
    LET harm_indicators == _analyze_harm_indicators(claim_text)
        base_severity == _calculate_base_severity(harm_indicators)
        adjusted_severity == base_severity * _get_verdict_multiplier(verdict)
        harm_level == _determine_harm_level(adjusted_severity)
        risk_factors == _identify_risk_factors(claim_text, harm_indicators)
    IN [level |-> harm_level,
        confidence |-> _calculate_confidence(harm_indicators, adjusted_severity),
        severity_score |-> adjusted_severity,
        risk_factors |-> risk_factors,
        suggested_actions |-> _generate_suggested_actions(harm_level, risk_factors, verdict),
        escalation_required |-> _requires_escalation(harm_level, risk_factors)]

(***************************************************************************)
(* Harm engine on its own: a text is built up fragment by fragment and     *)
(* classified under each verdict.                                          *)
(***************************************************************************)

Nothing == <<>>

VerdictArguments == {"true", "false", "misleading", "unverified", "satire", NotAString}

AddFragment(k) ==
    /\ harm_text.is_str
    /\ Fragments(harm_text) < MaxFragments
    /\ harm_text[k] < ListSize[k]
    /\ harm_text' = [harm_text EXCEPT ![k] = @ + 1]
    /\ harm_verdict' = None
    /\ harm_result' = Nothing
    /\ harm_first' = Nothing
    /\ UNCHANGED <<pipeVars, stageVars>>

SetSignal(k) ==
    /\ harm_text.is_str
    /\ ~harm_text[k]
    /\ harm_text' = [harm_text EXCEPT ![k] = TRUE]
    /\ harm_verdict' = None
    /\ harm_result' = Nothing
    /\ harm_first' = Nothing
    /\ UNCHANGED <<pipeVars, stageVars>>

\* A passage with two phrases of one list; a text holds at most MaxFragments
\* passages.
PassageHits == 2

AddPassage(k) ==
    /\ harm_text.is_str
    /\ Fragments(harm_text) + PassageHits <= PassageHits * MaxFragments
    /\ harm_text[k] + PassageHits <= ListSize[k]
    /\ harm_text' = [harm_text EXCEPT ![k] = @ + PassageHits]
    /\ harm_verdict' = None
    /\ harm_result' = Nothing
    /\ harm_first' = Nothing
    /\ UNCHANGED <<pipeVars, stageVars>>

\* The caller passes a value that is not a str as the claim text.
PassNonText ==
    /\ harm_text.is_str
    /\ harm_text' = NotAText
    /\ harm_verdict' = None
    /\ harm_result' = Nothing
    /\ harm_first' = Nothing
    /\ UNCHANGED <<pipeVars, stageVars>>

Classify(verdict) ==
    /\ harm_verdict' = verdict
    /\ harm_result' = classify_harm(harm_text, verdict)
    /\ harm_first' = IF harm_first # Nothing /\ verdict # harm_first.verdict
                     THEN [harm_first EXCEPT !.other_calls = TRUE]
                     ELSE harm_first
    /\ UNCHANGED <<harm_text, pipeVars, stageVars>>

\* The caller keeps the arguments and the result of the latest call, to
\* compare later calls on the same service instance with it; other_calls
\* says whether a call with another verdict has been made since.
KeepResult ==
    /\ harm_result # Nothing
    /\ harm_first = Nothing
    /\ harm_first' = [claim_text |-> harm_text, verdict |-> harm_verdict,
                      result |-> harm_result, other_calls |-> FALSE]
    /\ UNCHANGED <<harm_text, harm_verdict, harm_result, pipeVars, stageVars>>

(***************************************************************************)
(* Durable store (Firestore documents as dictionaries)                     *)
(***************************************************************************)

ClaimIds == 1..MaxClaims
StoredClaims == DOMAIN claims

\* document(id).set(data): creates or replaces the whole document.
DocSet(collection, id, data) == (id :> data) @@ collection

\* Variant of update that writes to one shared document.
DocUpdate_shared(collection, id, fields) == [collection EXCEPT ![1] = fields @@ @]

\* document(id).update(fields): merges the fields into the existing document.
DocUpdate(collection, id, fields) == [collection EXCEPT ![id] = fields @@ @]

(***************************************************************************)
(* Collaborators of the pipeline                                           *)
(***************************************************************************)

Verdicts == {"true", "false", "misleading", "unverified"}

\* OCRService.extract_text_from_image: "text" is a successful extraction,
\* "empty" an image without text annotations, "error" any exception inside.
OcrOutcomes == {"text", "empty", "error"}

extract_text_from_image(outcome) ==
    IF outcome = "text" THEN [text |-> "ocr text", processing_method |-> "vision_api"]
    ELSE IF outcome = "empty" THEN [text |-> "", processing_method |-> "vision_api"]
    ELSE [text |-> "", processing_method |-> "failed"]

\* Variant of translate_claim_text that returns no text when it fails.
translate_claim_text_empty_on_failure(text, outcome) ==
    IF outcome = "ok" THEN "en:" \o text ELSE ""

translate_claim_text(text, outcome) ==
    IF outcome = "ok" THEN "en:" \o text ELSE text

\* VertexAIService.detect_claims: "claims" is a response with one usable line,
\* "no_lines" a response without any, "error" an exception inside.
DetectOutcomes == {"claims", "no_lines", "error"}

detect_claims(text, outcome) ==
    IF outcome = "claims" THEN <<"statement">>
    ELSE IF outcome = "no_lines" THEN <<>>
    ELSE <<text>>

\* What a text model can answer to the verification prompt: a JSON object
\* whose verdict is one of the four, another string or missing (None) and
\* whose confidence is a number (in hundredths) or not a number (missing, a
\* string, null); text that is not JSON; or an exception in the call.
RawVerdicts == Verdicts \cup {"mostly true", None}
RawConfidences == {-100, -20, 0, 30, 50, 90, 100, 150}

RawResponses ==
    {[kind |-> "json", verdict |-> v, numeric |-> TRUE, confidence |-> c] :
        v \in RawVerdicts, c \in RawConfidences}
    \cup {[kind |-> "json", verdict |-> v, numeric |-> FALSE, confidence |-> 0] :
              v \in RawVerdicts}
    \cup {[kind |-> "unparsable", verdict |-> None, numeric |-> FALSE, confidence |-> 0],
          [kind |-> "error", verdict |-> None, numeric |-> FALSE, confidence |-> 0]}

\* The answers drawn in a pipeline run.
ModelResponses ==
    {[kind |-> "json", verdict |-> "false", numeric |-> TRUE, confidence |-> 90],
     [kind |-> "json", verdict |-> "mostly true", numeric |-> TRUE, confidence |-> -20],
     [kind |-> "unparsable", verdict |-> None, numeric |-> FALSE, confidence |-> 0],
     [kind |-> "error", verdict |-> None, numeric |-> FALSE, confidence |-> 0]}

\* Variant of VertexAIService.verify_claim that returns the verdict of the
\* model as it is.
VertexAIService_verify_claim_verdict_as_is(raw) ==
    IF raw.kind = "json"
    THEN [verdict |-> raw.verdict,
          confidence |-> IF ~raw.numeric \/ raw.confidence > 100 THEN 50
                         ELSE raw.confidence,
          reasoning |-> "model reasoning"]
    ELSE IF raw.kind = "unparsable"
    THEN [verdict |-> "unverified", confidence |-> 30,
          reasoning |-> "Unable to process verification results"]
    ELSE [verdict |-> "unverified", confidence |-> 0,
          reasoning |-> "Verification system unavailable"]

\* VertexAIService.verify_claim never raises: a parsed response is
\* normalized, a response that is not JSON gives unverified/0.3 and any
\* other exception inside gives unverified/0.0.  The confidence of a parsed
\* response is replaced by 0.5 when it is not a number or is above 1, and is
\* kept otherwise.
VertexAIService_verify_claim(raw) ==
    IF raw.kind = "json"
    THEN [verdict |-> IF raw.verdict \in Verdicts THEN raw.verdict ELSE "unverified",
          confidence |-> IF ~raw.numeric \/ raw.confidence > 100 THEN 50
                         ELSE raw.confidence,
          reasoning |-> "model reasoning"]
    ELSE IF raw.kind = "unparsable"
    THEN [verdict |-> "unverified", confidence |-> 30,
          reasoning |-> "Unable to process verification results"]
    ELSE [verdict |-> "unverified", confidence |-> 0,
          reasoning |-> "Verification system unavailable"]

\* GeminiAIService.verify_claim: the same normalization of the verdict; the
\* confidence of a parsed response is replaced by 0.5 when it is not a number
\* and is clamped to [0, 1] otherwise.
GeminiAIService_verify_claim(raw) ==
    IF raw.kind = "json"
    THEN [verdict |-> IF raw.verdict \in Verdicts THEN raw.verdict ELSE "unverified",
          confidence |-> IF ~raw.numeric THEN 50
                         ELSE Max(0, Min(100, raw.confidence)),
          reasoning |-> "model reasoning"]
    ELSE IF raw.kind = "unparsable"
    THEN [verdict |-> "unverified", confidence |-> 30,
          reasoning |-> "Unable to process verification with high confidence"]
    ELSE [verdict |-> "unverified", confidence |-> 0,
          reasoning |-> "Verification system temporarily unavailable"]

\* The pattern and keyword hits of the texts the pipeline model handles; a
\* translation keeps the hits of its source.
ScanText(text) ==
    IF text \in {"claim", "en:claim"}
    THEN [EmptyText EXCEPT !.financial_patterns = 2]
    ELSE [EmptyText EXCEPT !.violence_patterns = 2]

(***************************************************************************)
(* process_claim_immediate, steps 1 to 8: everything between the write of  *)
(* "processing" and the writes of the result.  These steps touch only the  *)
(* locals of the invocation, so they are computed here as one function of  *)
(* claim_data and of the outcome of each collaborator call.  A frame holds *)
(* the locals; exc is the message of the exception raised so far, calls    *)
(* lists the collaborators called, received the text (for OCR the image    *)
(* reference) each call was given, searched the claim list given to the    *)
(* search.                                                                 *)
(***************************************************************************)

NoTextMessage == "No text found in claim or extracted from image"
SearchMessage == "knowledge search failed"
BuildMessage == "result could not be built"
StoreMessage == "store unavailable"

TranslateOutcomes == {"ok", "error"}
SearchOutcomes == {"ok", "raise"}
ExplainOutcomes == {"ok", "error"}
BuildOutcomes == {"ok", "raise"}

FirstFrame(claim_data) ==
    [text |-> claim_data.text, calls |-> <<>>, received |-> <<>>,
     steps |-> <<>>, claims_detected |-> <<>>, searched |-> <<>>,
     verification_result |-> Nothing, harm_result |-> Nothing, exc |-> None]

\* Step 1: extract text if an image is provided and no text is.
NeedsOcr(claim_data, claim_text) == Truthy(claim_data.image_url) /\ ~Truthy(claim_text)

\* Variant of step 1 without the check of the acquired text.
StepAcquire_unchecked(f, claim_data, outcome) ==
    LET ocr == NeedsOcr(claim_data, f.text)
    IN IF ocr THEN [f EXCEPT !.text = extract_text_from_image(outcome).text,
                             !.calls = Append(@, "ocr"),
                             !.received = Append(@, claim_data.image_url),
                             !.steps = Append(@, "ocr")]
       ELSE f

StepAcquire(f, claim_data, outcome) ==
    LET ocr == NeedsOcr(claim_data, f.text)
        claim_text == IF ocr THEN extract_text_from_image(outcome).text ELSE f.text
        g == IF ocr THEN [f EXCEPT !.text = claim_text,
                                   !.calls = Append(@, "ocr"),
                                   !.received = Append(@, claim_data.image_url),
                                   !.steps = Append(@, "ocr")]
             ELSE f
    IN IF ~Truthy(claim_text) THEN [g EXCEPT !.exc = NoTextMessage] ELSE g

\* Variant of step 2 that records the step only when the translation worked.
StepTranslate_recorded_on_success(f, claim_data, outcome) ==
    IF f.exc # None \/ claim_data.language = "en" THEN f
    ELSE [f EXCEPT !.text = translate_claim_text(f.text, outcome),
                   !.calls = Append(@, "translation"),
                   !.received = Append(@, f.text),
                   !.steps = IF outcome = "ok" THEN Append(@, "translation") ELSE @]

\* Step 2: translate if the declared language is not English.
StepTranslate(f, claim_data, outcome) ==
    IF f.exc # None \/ claim_data.language = "en" THEN f
    ELSE [f EXCEPT !.text = translate_claim_text(f.text, outcome),
                   !.calls = Append(@, "translation"),
                   !.received = Append(@, f.text),
                   !.steps = Append(@, "translation")]

\* Step 3: claim detection.
StepDetect(f, outcome) ==
    IF f.exc # None THEN f
    ELSE [f EXCEPT !.claims_detected = detect_claims(f.text, outcome),
                   !.calls = Append(@, "claim_detection"),
                   !.received = Append(@, f.text),
                   !.steps = Append(@, "claim_detection")]

\* Variant of step 4 that calls the search a second time before giving up.
StepSearch_retry(f, outcome) ==
    IF f.exc # None THEN f
    ELSE IF outcome = "raise"
    THEN [f EXCEPT !.calls = @ \o <<"knowledge_retrieval", "knowledge_retrieval">>,
                   !.received = @ \o <<f.text, f.text>>,
                   !.searched = f.claims_detected,
                   !.exc = SearchMessage]
    ELSE [f EXCEPT !.calls = Append(@, "knowledge_retrieval"),
                   !.received = Append(@, f.text),
                   !.searched = f.claims_detected,
                   !.steps = Append(@, "knowledge_retrieval")]

\* Step 4: knowledge retrieval; the search may raise.
StepSearch(f, outcome) ==
    IF f.exc # None THEN f
    ELSE IF outcome = "raise"
    THEN [f EXCEPT !.calls = Append(@, "knowledge_retrieval"),
                   !.received = Append(@, f.text),
                   !.searched = f.claims_detected,
                   !.exc = SearchMessage]
    ELSE [f EXCEPT !.calls = Append(@, "knowledge_retrieval"),
                   !.received = Append(@, f.text),
                   !.searched = f.claims_detected,
                   !.steps = Append(@, "knowledge_retrieval")]

\* Step 5: verification.
StepVerify(f, raw) ==
    IF f.exc # None THEN f
    ELSE [f EXCEPT !.verification_result = VertexAIService_verify_claim(raw),
                   !.calls = Append(@, "verification"),
                   !.received = Append(@, f.text),
                   !.steps = Append(@, "verification")]

\* Step 6: harm classification of the text under the verdict.
StepHarm(f) ==
    IF f.exc # None THEN f
    ELSE [f EXCEPT !.harm_result = classify_harm(ScanText(f.text),
                                                 f.verification_result.verdict),
                   !.calls = Append(@, "harm_classification"),
                   !.received = Append(@, f.text),
                   !.steps = Append(@, "harm_classification")]

\* Step 7: explanation; generate_explanation returns a fallback explanation
\* when it fails inside and adds no processing step.
StepExplain(f, outcome) ==
    IF f.exc # None THEN f
    ELSE [f EXCEPT !.calls = Append(@, "explanation"),
                   !.received = Append(@, f.text)]

\* Step 8: the response model is built from the locals.  Building raises when
\* the explanation is a model object instead of a dictionary
\* (explanation["text"]) or when a field fails validation.
StepBuild(f, outcome) ==
    IF f.exc # None THEN f
    ELSE IF outcome = "raise" THEN [f EXCEPT !.exc = BuildMessage]
    ELSE f

\* The frames steps 1 to 8 can end in, over every outcome of every
\* collaborator call that is made: a step leaves a frame with an exception
\* as it is, OCR is called only when needed and translation only for
\* another language.
PipelineResults(claim_data) ==
    LET f0 == FirstFrame(claim_data)
        s1 == {StepAcquire(f0, claim_data, x) :
                  x \in IF NeedsOcr(claim_data, f0.text) THEN OcrOutcomes ELSE {"text"}}
        s2 == {StepTranslate(f, claim_data, x) :
                  f \in s1, x \in IF claim_data.language = "en" THEN {"ok"}
                                    ELSE TranslateOutcomes}
        s3 == {StepDetect(f, x) : f \in s2, x \in DetectOutcomes}
        s4 == {StepSearch(f, x) : f \in s3, x \in SearchOutcomes}
        s5 == {StepVerify(f, x) : f \in s4, x \in ModelResponses}
        s6 == {StepHarm(f) : f \in s5}
        s7 == {StepExplain(f, x) : f \in s6, x \in ExplainOutcomes}
    IN {StepBuild(f, x) : f \in s7, x \in BuildOutcomes}

\* Constructor arguments of the response model saved as the result.
final_result(f) ==
    [verdict |-> f.verification_result.verdict,
     confidence_score |-> f.verification_result.confidence,
     harm_level |-> f.harm_result.level,
     processing_steps |-> f.steps,
     suggested_actions |-> f.harm_result.suggested_actions]

(***************************************************************************)
(* Requests and invocations                                                *)
(***************************************************************************)

Languages == {"en", "hi"}
Priorities == {"normal", "high"}

\* The submissions drawn: text only, image only, both and neither, in each
\* language and with each priority.  publish_ok says whether the publication
\* to the topic succeeds when the submission reaches it.
Requests ==
    {[text |-> "claim", image |-> None, language |-> "en", priority |-> "normal",
      publish_ok |-> TRUE],
     [text |-> "claim", image |-> None, language |-> "hi", priority |-> "normal",
      publish_ok |-> FALSE],
     [text |-> None, image |-> "image", language |-> "en", priority |-> "high",
      publish_ok |-> TRUE],
     [text |-> None, image |-> "image", language |-> "hi", priority |-> "normal",
      publish_ok |-> TRUE],
     [text |-> "claim", image |-> "image", language |-> "en", priority |-> "high",
      publish_ok |-> TRUE],
     [text |-> None, image |-> None, language |-> "en", priority |-> "normal",
      publish_ok |-> TRUE]}

\* Variant of the validation that accepts every submission.
InputMissing_never(text, image) == FALSE

InputMissing(text, image) == ~Truthy(text) /\ ~Truthy(image)

\* The fields of claim_data that process_claim_immediate reads.
ClaimData(doc) == [text |-> doc.text, image_url |-> doc.image_url,
                   language |-> doc.language]

\* runs lists the invocations in the order they started, at most MaxRuns in
\* all.  The entry of an invocation that has returned or raised is Over: its
\* locals are gone.
Over == <<>>
RunIds == {i \in 1..Len(runs) : runs[i] # Over}
Invoke(run) == Append(runs, run)

NewRun(claim_id, claim_data, origin) ==
    [claim_id |-> claim_id, claim_data |-> claim_data, origin |-> origin,
     pc |-> "start", text |-> None, calls |-> <<>>, steps |-> <<>>,
     verification_result |-> Nothing, final |-> Nothing, exc |-> None]

BadRequestDetail == "Either text or image must be provided"
ErrorResponse(cause) ==
    [status_code |-> 500, detail |-> "Failed to submit claim: " \o cause]

\* POST /submitClaim.  publish_ok says whether the publication to the topic
\* succeeds; the image upload and the write of the claim document are taken
\* to succeed.  Everything is inside one try block whose handler turns every
\* exception, the HTTPException of the validation included, into a 500.
submit_claim(text, image, language, priority, publish_ok) ==
    LET claim_id == Cardinality(DOMAIN claims) + 1
        image_url == IF Truthy(image) THEN "https://storage/image" ELSE None
        claim_data == [claim_id |-> claim_id, user_id |-> "anonymous",
                       text |-> text, image_url |-> image_url,
                       language |-> language, priority |-> priority,
                       status |-> "submitted"]
        accepted == [claim_id |-> claim_id, status |-> "submitted",
                     message |-> "Claim submitted for verification"]
    IN
    IF InputMissing(text, image)
    THEN /\ rejected' = ErrorResponse("400: " \o BadRequestDetail)
         /\ UNCHANGED <<claims, verifications, queue, tasks, runs, resp>>
    ELSE /\ claims' = DocSet(claims, claim_id, claim_data)
         /\ IF priority = "high"
            THEN \* background_tasks.add_task(process_claim_immediate, ...)
                 /\ tasks' = tasks \cup {claim_id}
                 /\ resp' = (claim_id :> accepted) @@ resp
                 /\ UNCHANGED <<queue, runs>>
            ELSE IF publish_ok
            THEN \* queue_claim_for_processing publishes the message
                 /\ queue' = queue \cup {claim_id}
                 /\ resp' = (claim_id :> accepted) @@ resp
                 /\ UNCHANGED <<tasks, runs>>
            ELSE \* queue_claim_for_processing falls back to an awaited
                 \* process_claim_immediate inside the request
                 /\ Len(runs) < MaxRuns
                 /\ runs' = Invoke(NewRun(claim_id, ClaimData(claim_data), "inline"))
                 /\ resp' = (claim_id :> [status |-> "pending"]) @@ resp
                 /\ UNCHANGED <<queue, tasks>>
         /\ UNCHANGED <<verifications, rejected>>

\* A request out of requests arrives while the store has room within ids.
SubmitWithin(ids, requests) ==
    /\ \E r \in requests :
          submit_claim(r.text, r.image, r.language, r.priority, r.publish_ok)
    /\ DOMAIN claims' \subseteq ids
    /\ UNCHANGED <<harmVars, stageVars>>

SubmitClaim == SubmitWithin(ClaimIds, Requests)

\* The background task of a high-priority submission starts.
StartBackgroundTask(claim_id) ==
    /\ claim_id \in tasks
    /\ Len(runs) < MaxRuns
    /\ tasks' = tasks \ {claim_id}
    /\ runs' = Invoke(NewRun(claim_id, ClaimData(claims[claim_id]), "background"))
    /\ UNCHANGED <<claims, verifications, queue, resp, rejected, harmVars, stageVars>>

\* The queue consumer hands a published claim to the orchestrator.  Delivery
\* is at least once: the message stays available for redelivery.
Deliver(claim_id) ==
    /\ claim_id \in queue
    /\ Len(runs) < MaxRuns
    /\ runs' = Invoke(NewRun(claim_id, ClaimData(claims[claim_id]), "queue"))
    /\ UNCHANGED <<claims, verifications, queue, tasks, resp, rejected, harmVars, stageVars>>

\* The submit_claim request that awaits an inline run answers when the run
\* returns (200) or raises (500).
Answer(run, pc) ==
    IF run.origin # "inline" THEN resp
    ELSE IF pc = "done"
    THEN [resp EXCEPT ![run.claim_id] =
             [claim_id |-> run.claim_id, status |-> "submitted",
              message |-> "Claim submitted for verification"]]
    ELSE [resp EXCEPT ![run.claim_id] = ErrorResponse(StoreMessage)]

\* The locals of an invocation after steps 1 to 8 ended in frame f.
AfterStages(run, f) ==
    IF f.exc # None
    THEN [run EXCEPT !.pc = "except", !.exc = f.exc, !.text = f.text,
                     !.calls = f.calls, !.steps = f.steps,
                     !.verification_result = f.verification_result]
    ELSE [run EXCEPT !.pc = "save_verification", !.text = f.text,
                     !.calls = f.calls, !.steps = f.steps,
                     !.verification_result = f.verification_result,
                     !.final = final_result(f)]

\* process_claim_immediate up to the next write after the first one: the
\* write of status "processing" and, when the store accepts it, steps 1 to 8,
\* which touch only the locals of the invocation and end in frame f.
MarkProcessing(i, write_ok, f) ==
    LET run == runs[i] IN
    /\ run.pc = "start"
    /\ IF write_ok
       THEN /\ claims' = DocUpdate(claims, run.claim_id, [status |-> "processing"])
            /\ runs' = [runs EXCEPT ![i] = AfterStages(run, f)]
       ELSE /\ runs' = [runs EXCEPT ![i].pc = "except", ![i].exc = StoreMessage]
            /\ UNCHANGED claims
    /\ UNCHANGED <<verifications, queue, tasks, resp, rejected, harmVars, stageVars>>

\* process_claim_immediate: verifications.document(claim_id).set(final_result).
SaveVerification(i, write_ok) ==
    LET run == runs[i] IN
    /\ run.pc = "save_verification"
    /\ IF write_ok
       THEN /\ verifications' = DocSet(verifications, run.claim_id, run.final)
            /\ runs' = [runs EXCEPT ![i].pc = "save_claim"]
       ELSE /\ runs' = [runs EXCEPT ![i].pc = "except", ![i].exc = StoreMessage]
            /\ UNCHANGED verifications
    /\ UNCHANGED <<claims, queue, tasks, resp, rejected, harmVars, stageVars>>

\* process_claim_immediate: claims.document(claim_id).update(status completed).
MarkCompleted(i, write_ok) ==
    LET run == runs[i] IN
    /\ run.pc = "save_claim"
    /\ IF write_ok
       THEN /\ claims' = DocUpdate(claims, run.claim_id,
                            [status |-> "completed",
                             verdict |-> run.final.verdict,
                             confidence_score |-> run.final.confidence_score,
                             harm_level |-> run.final.harm_level])
            /\ runs' = [runs EXCEPT ![i] = Over]
            /\ resp' = Answer(run, "done")
       ELSE /\ runs' = [runs EXCEPT ![i].pc = "except", ![i].exc = StoreMessage]
            /\ UNCHANGED <<claims, resp>>
    /\ UNCHANGED <<verifications, queue, tasks, rejected, harmVars, stageVars>>

\* Variant of the exception handler that only logs the error.
MarkFailed_log_only(i, write_ok) ==
    LET run == runs[i] IN
    /\ run.pc = "except"
    /\ runs' = [runs EXCEPT ![i] = Over]
    /\ resp' = Answer(run, "done")
    /\ UNCHANGED <<claims, verifications, queue, tasks, rejected, harmVars, stageVars>>

\* process_claim_immediate, exception handler: status "failed" and the error.
\* When this write fails too the exception leaves process_claim_immediate.
\* Either way the invocation is over and its locals are gone.
MarkFailed(i, write_ok) ==
    LET run == runs[i] IN
    /\ run.pc = "except"
    /\ IF write_ok
       THEN /\ claims' = DocUpdate(claims, run.claim_id,
                            [status |-> "failed", error |-> run.exc])
            /\ runs' = [runs EXCEPT ![i] = Over]
            /\ resp' = Answer(run, "done")
       ELSE /\ runs' = [runs EXCEPT ![i] = Over]
            /\ resp' = Answer(run, "raised")
            /\ UNCHANGED claims
    /\ UNCHANGED <<verifications, queue, tasks, rejected, harmVars, stageVars>>

\* GET /verifyClaim/{claim_id}: the value the handler returns, or the
\* HTTPException it raises, in the current state of the store.  The handler
\* writes nothing.
verify_claim(claim_id) ==
    IF claim_id \notin DOMAIN claims
    THEN [status_code |-> 404, detail |-> "Claim not found"]
    ELSE IF claims[claim_id].status # "completed"
    THEN [claim_id |-> claim_id, status |-> claims[claim_id].status,
          message |-> "Verification in progress"]
    ELSE IF claim_id \notin DOMAIN verifications
    THEN [status_code |-> 404, detail |-> "Verification results not found"]
    ELSE [claim_id |-> claim_id] @@ verifications[claim_id]

(***************************************************************************)
(* Specifications                                                          *)
(***************************************************************************)

(***************************************************************************)
(* process_claim_immediate, steps 1 to 8, one stage at a time.  stages     *)
(* follows one invocation: its claim_data, its frame f, the stage it is at *)
(* ("except" once a stage raised) and the collaborators that failed inside *)
(* and returned their fallback.                                            *)
(***************************************************************************)

\* The claim data a submission can store.
ClaimDataValues ==
    [text : {"claim", None}, image_url : {"https://storage/image", None},
     language : Languages]

EnterStages(claim_data) ==
    /\ stages = Nothing
    /\ stages' = [claim_data |-> claim_data, f |-> FirstFrame(claim_data),
                  at |-> "acquire", failed |-> {}]
    /\ UNCHANGED <<pipeVars, harmVars>>

\* The stage at `at` ends in frame f and the invocation goes on to `next`, or
\* to the exception handler when the stage raised; `fell_back` is the
\* collaborator that failed inside, if one did.
StageDone(at, f, next, fell_back) ==
    /\ stages # Nothing
    /\ stages.at = at
    /\ stages' = [stages EXCEPT !.f = f,
                                !.at = IF f.exc # None THEN "except" ELSE next,
                                !.failed = IF Len(f.calls) > Len(stages.f.calls)
                                           THEN @ \cup fell_back ELSE @]
    /\ UNCHANGED <<pipeVars, harmVars>>

Acquire(outcome) ==
    /\ stages # Nothing
    /\ StageDone("acquire", StepAcquire(stages.f, stages.claim_data, outcome),
                 "translate", IF outcome = "error" THEN {"ocr"} ELSE {})

Translate(outcome) ==
    /\ stages # Nothing
    /\ StageDone("translate", StepTranslate(stages.f, stages.claim_data, outcome),
                 "detect", IF outcome = "error" THEN {"translation"} ELSE {})

Detect(outcome) ==
    /\ stages # Nothing
    /\ StageDone("detect", StepDetect(stages.f, outcome),
                 "search", IF outcome = "error" THEN {"claim_detection"} ELSE {})

Search(outcome) ==
    /\ stages # Nothing
    /\ StageDone("search", StepSearch(stages.f, outcome), "verify", {})

Verify(raw) ==
    /\ stages # Nothing
    /\ StageDone("verify", StepVerify(stages.f, raw),
                 "harm", IF raw.kind = "error" THEN {"verification"} ELSE {})

Harm ==
    /\ stages # Nothing
    /\ StageDone("harm", StepHarm(stages.f), "explain", {})

Explain(outcome) ==
    /\ stages # Nothing
    /\ StageDone("explain", StepExplain(stages.f, outcome),
                 "build", IF outcome = "error" THEN {"explanation"} ELSE {})

Build(outcome) ==
    /\ stages # Nothing
    /\ StageDone("build", StepBuild(stages.f, outcome), "done", {})

\* The invocation goes on to its writes and is followed no further.
LeaveStages ==
    /\ stages # Nothing
    /\ stages.at \in {"done", "except"}
    /\ stages' = Nothing
    /\ UNCHANGED <<pipeVars, harmVars>>

InitPipeline ==
    /\ claims = <<>>
    /\ verifications = <<>>
    /\ queue = {}
    /\ tasks = {}
    /\ runs = <<>>
    /\ resp = <<>>
    /\ rejected = Nothing

InitStages == stages = Nothing

InitHarm ==
    /\ harm_text = EmptyText
    /\ harm_verdict = None
    /\ harm_result = Nothing
    /\ harm_first = Nothing

Init == InitPipeline /\ InitHarm /\ InitStages

Next ==
    \/ SubmitClaim
    \/ \E claim_id \in ClaimIds : StartBackgroundTask(claim_id)
    \/ \E claim_id \in ClaimIds : Deliver(claim_id)
    \/ \E i \in RunIds :
            /\ runs[i].pc = "start"
            /\ \/ \E f \in PipelineResults(runs[i].claim_data) : MarkProcessing(i, TRUE, f)
               \/ MarkProcessing(i, FALSE, FirstFrame(runs[i].claim_data))
    \/ \E i \in RunIds, write_ok \in BOOLEAN : SaveVerification(i, write_ok)
    \/ \E i \in RunIds, write_ok \in BOOLEAN : MarkCompleted(i, write_ok)
    \/ \E i \in RunIds, write_ok \in BOOLEAN : MarkFailed(i, write_ok)

Spec == Init /\ [][Next]_vars

\* One worker: a request is served or an invocation is started only when no
\* invocation is under way.  Every behaviour of SpecSerial is a behaviour of
\* Spec; the properties of a single request or a single run (C5, C6, C8) are
\* stated for SpecSerial, whose state space stays small with more claims
\* and more invocations.
NextSerial ==
    \/ RunIds = {} /\ SubmitClaim
    \/ \E claim_id \in ClaimIds : RunIds = {} /\ StartBackgroundTask(claim_id)
    \/ \E claim_id \in ClaimIds : RunIds = {} /\ Deliver(claim_id)
    \/ \E i \in RunIds :
            /\ runs[i].pc = "start"
            /\ \/ \E f \in PipelineResults(runs[i].claim_data) : MarkProcessing(i, TRUE, f)
               \/ MarkProcessing(i, FALSE, FirstFrame(runs[i].claim_data))
    \/ \E i \in RunIds, write_ok \in BOOLEAN : SaveVerification(i, write_ok)
    \/ \E i \in RunIds, write_ok \in BOOLEAN : MarkCompleted(i, write_ok)
    \/ \E i \in RunIds, write_ok \in BOOLEAN : MarkFailed(i, write_ok)

SpecSerial == Init /\ [][NextSerial]_vars

\* The specifications below are about scheduling, not about a failing store:
\* the store accepts every write and every collaborator call returns.  The
\* submissions drawn are one that goes to the queue and one that is
\* scheduled directly; the model answers with a valid verdict or its call
\* fails, so that two runs can end in different results.
IsolatedRequests ==
    {r \in Requests : Truthy(r.text) /\ r.language = "en"}

IsolatedResults(claim_data) ==
    {f \in PipelineResults(claim_data) :
        f.verification_result # Nothing
        => f.verification_result.reasoning
              \in {"model reasoning", "Verification system unavailable"}
           /\ f.verification_result.confidence >= 0}

\* The steps of an invocation after the write of "processing".
Resume(i) ==
    \/ SaveVerification(i, TRUE)
    \/ MarkCompleted(i, TRUE)
    \/ MarkFailed(i, TRUE)

RunStep(i) ==
    \/ /\ runs[i].pc = "start"
       /\ \E f \in IsolatedResults(runs[i].claim_data) : MarkProcessing(i, TRUE, f)
    \/ Resume(i)

\* Concurrent workers with exactly-once delivery: a published claim is handed
\* to the orchestrator only while no invocation for it has started, so the
\* invocations under way at any time are for different claims.  The store
\* has room for one claim and MaxClaims other claims.
NotStarted(claim_id) ==
    /\ claims[claim_id].status = "submitted"
    /\ \A i \in RunIds : runs[i].claim_id # claim_id

IsolatedClaimIds == 1..(MaxClaims + 1)

SubmitAmongOthers == SubmitWithin(IsolatedClaimIds, IsolatedRequests)

NextIsolated ==
    \/ SubmitAmongOthers
    \/ \E claim_id \in StoredClaims : StartBackgroundTask(claim_id)
    \/ \E claim_id \in StoredClaims : NotStarted(claim_id) /\ Deliver(claim_id)
    \/ \E i \in RunIds : RunStep(i)

SpecIsolated == Init /\ [][NextIsolated]_vars

\* Concurrent workers with redelivery while the host keeps running.  The
\* event loop resumes an invocation that has written "processing" until it
\* returns, so the steps after that write are weakly fair for each
\* invocation.  Nothing obliges a request, a background task, a delivery or
\* the first write of an invocation to happen.
SubmitLive == SubmitWithin(ClaimIds, IsolatedRequests)

NextLive ==
    \/ SubmitLive
    \/ \E claim_id \in ClaimIds : StartBackgroundTask(claim_id)
    \/ \E claim_id \in ClaimIds : Deliver(claim_id)
    \/ \E i \in RunIds : RunStep(i)

SpecLive ==
    /\ Init
    /\ [][NextLive]_vars
    /\ \A i \in 1..MaxRuns : WF_vars(i \in RunIds /\ Resume(i))

NextStages ==
    \/ \E claim_data \in ClaimDataValues : EnterStages(claim_data)
    \/ \E outcome \in OcrOutcomes : Acquire(outcome)
    \/ \E outcome \in TranslateOutcomes : Translate(outcome)
    \/ \E outcome \in DetectOutcomes : Detect(outcome)
    \/ \E outcome \in SearchOutcomes : Search(outcome)
    \/ \E raw \in ModelResponses : Verify(raw)
    \/ Harm
    \/ \E outcome \in ExplainOutcomes : Explain(outcome)
    \/ \E outcome \in BuildOutcomes : Build(outcome)
    \/ LeaveStages

SpecStages == Init /\ [][NextStages]_vars

NextHarm ==
    \/ \E k \in CountFields : AddFragment(k)
    \/ \E k \in {"long", "share"} : SetSignal(k)
    \/ \E verdict \in VerdictArguments : Classify(verdict)

SpecHarm == Init /\ [][NextHarm]_vars

\* The harm engine on texts made of passages, and on values that are not
\* texts.
NextHarmWide ==
    \/ \E k \in CountFields : AddPassage(k)
    \/ \E k \in {"long", "share"} : SetSignal(k)
    \/ PassNonText
    \/ \E verdict \in VerdictArguments : Classify(verdict)

SpecHarmWide == Init /\ [][NextHarmWide]_vars

\* The harm engine with a caller that keeps one earlier result, on texts of
\* at most 500 characters without a share imperative.
NextHarmRepeat ==
    \/ \E k \in CountFields : AddFragment(k)
    \/ \E verdict \in VerdictArguments : Classify(verdict)
    \/ KeepResult

SpecHarmRepeat == Init /\ [][NextHarmRepeat]_vars

(***************************************************************************)
(* Properties                                                              *)
(***************************************************************************)

ResultFields == {"verdict", "confidence_score", "harm_level"}
NoDuplicates(s) == \A i, j \in 1..Len(s) : s[i] = s[j] => i = j
Last(s) == s[Len(s)]

\* C1: the first step of an invocation of process_claim_immediate on a claim
\* whose stored status is completed, taken while no other invocation is
\* under way, writes neither to the claims collection nor to the
\* verifications collection.
C1_NoWriteOnCompleted ==
    [][\A i \in RunIds :
          (/\ runs[i].pc = "start"
           /\ claims[runs[i].claim_id].status = "completed"
           /\ \A j \in RunIds \ {i} : runs[j].pc = "start"
           /\ runs'[i] # runs[i])
          => claims' = claims /\ verifications' = verifications]_vars

AllowedTransitions ==
    {<<"submitted", "processing">>, <<"processing", "completed">>,
     <<"processing", "failed">>}

C4_AllowedTransitionsOnly ==
    [][\A c \in StoredClaims :
          claims'[c].status # claims[c].status
          => <<claims[c].status, claims'[c].status>> \in AllowedTransitions]_vars

\* A run in the exception handler because one of steps 1 to 8 raised.
StageMessages == {NoTextMessage, SearchMessage, BuildMessage}
StageRaised(run) == run.pc = "except" /\ run.exc \in StageMessages

\* The calls a run has made end with the stage that raised.
StoppedAtStage(run) ==
    /\ run.exc = NoTextMessage => run.calls \in {<<>>, <<"ocr">>}
    /\ run.exc = SearchMessage => Last(run.calls) = "knowledge_retrieval"
    /\ run.exc = BuildMessage => Last(run.calls) = "explanation"

\* C5 as stated: no run calls a collaborator twice, a run in which a stage
\* raised has called nothing after that stage, and its next step leaves the
\* claim with status failed and the exception's message as error.
C5_StageFailureSetsFailed ==
    /\ [](\A i \in RunIds : /\ NoDuplicates(runs[i].calls)
                            /\ StageRaised(runs[i]) => StoppedAtStage(runs[i]))
    /\ [][\A i \in RunIds :
            StageRaised(runs[i]) /\ runs'[i] # runs[i]
            => /\ claims'[runs[i].claim_id].status = "failed"
               /\ claims'[runs[i].claim_id].error = runs[i].exc]_vars

\* C5 amended: as above, but the next step of the run ends it and either
\* writes status failed with the exception's message (the store accepts the
\* handler's write) or leaves the claims collection as it is (the store
\* rejects the write and its exception leaves the run).
C5_StageFailureAborts ==
    /\ [](\A i \in RunIds : /\ NoDuplicates(runs[i].calls)
                            /\ StageRaised(runs[i]) => StoppedAtStage(runs[i]))
    /\ [][\A i \in RunIds :
            StageRaised(runs[i]) /\ runs'[i] # runs[i]
            => /\ runs'[i] = Over
               /\ \/ /\ claims'[runs[i].claim_id].status = "failed"
                     /\ claims'[runs[i].claim_id].error = runs[i].exc
                  \/ claims' = claims]_vars

\* A claim failed with the message of the search and no run is under way.
C5_Witness ==
    /\ RunIds = {}
    /\ \E c \in StoredClaims : /\ claims[c].status = "failed"
                                /\ claims[c].error = SearchMessage

\* A run whose step 1 ended without text.
NoTextCase(run) ==
    /\ run.pc \in {"except", "save_verification", "save_claim"}
    /\ run.exc # StoreMessage
    /\ ~Truthy(run.text)

\* What a run without text has done: it is in the exception handler with the
\* no-text message, and OCR is its only call, made exactly when the claim
\* has an image reference and no text.
NoTextStops(run) ==
    /\ run.pc = "except"
    /\ run.exc = NoTextMessage
    /\ run.calls = IF Truthy(run.claim_data.image_url) /\ ~Truthy(run.claim_data.text)
                   THEN <<"ocr">> ELSE <<>>

\* C6 as stated: a run without text has stopped as above and its next step
\* leaves the claim with status failed and an error message stored.
C6_NoTextEndsFailed ==
    /\ [](\A i \in RunIds : NoTextCase(runs[i]) => NoTextStops(runs[i]))
    /\ [][\A i \in RunIds :
            NoTextCase(runs[i]) /\ runs'[i] # runs[i]
            => /\ claims'[runs[i].claim_id].status = "failed"
               /\ Truthy(claims'[runs[i].claim_id].error)]_vars

\* C6 amended: a run without text has stopped as above and its next step
\* ends it and either writes status failed with the no-text message or, when
\* the store rejects that write, changes no claim.
C6_NoTextAborts ==
    /\ [](\A i \in RunIds : NoTextCase(runs[i]) => NoTextStops(runs[i]))
    /\ [][\A i \in RunIds :
            NoTextCase(runs[i]) /\ runs'[i] # runs[i]
            => /\ runs'[i] = Over
               /\ \/ /\ claims'[runs[i].claim_id].status = "failed"
                     /\ claims'[runs[i].claim_id].error = NoTextMessage
                  \/ claims' = claims]_vars

\* An image-only claim failed with the no-text message after OCR.
C6_Witness ==
    \E c \in StoredClaims :
        /\ ~Truthy(claims[c].text)
        /\ Truthy(claims[c].image_url)
        /\ claims[c].status = "failed"
        /\ claims[c].error = NoTextMessage

\* verify_claim of the verification service failed inside during the run.
VerifyFailed(run) ==
    /\ run.verification_result # Nothing
    /\ run.verification_result.reasoning = "Verification system unavailable"

C8_EmptySubmissionRejected ==
    /\ [](/\ \A c \in StoredClaims : Truthy(claims[c].text) \/ Truthy(claims[c].image_url)
          /\ queue \cup tasks \cup {runs[i].claim_id : i \in RunIds} \subseteq StoredClaims)
    /\ [][(\E language \in Languages, priority \in Priorities :
              submit_claim(None, None, language, priority, TRUE))
          => /\ UNCHANGED <<claims, verifications, queue, tasks, runs, resp>>
             /\ rejected'.status_code >= 400]_vars

\* A submission was rejected while a claim is stored, and only the accepted
\* one is stored, published or run.
C8_Witness ==
    /\ rejected # Nothing
    /\ StoredClaims # {}
    /\ \A c \in StoredClaims : Truthy(claims[c].text) \/ Truthy(claims[c].image_url)

\* C9: fetching a claim whose stored status is failed returns status failed
\* with the stored error message and no verdict.
C9_FailedFetchReturnsError ==
    \A c \in StoredClaims :
        claims[c].status = "failed"
        => LET r == verify_claim(c)
           IN /\ "status" \in DOMAIN r /\ r.status = "failed"
              /\ "error" \in DOMAIN r /\ r.error = claims[c].error
              /\ "verdict" \notin DOMAIN r

\* C10: in every result classify_harm returns, the severity score is in
\* [0, 1] and the level is harmless below 0.3, basic from 0.3 to below 0.7
\* and very_harmful from 0.7.
C10_LevelIsStepFunction ==
    harm_result # Nothing
    => /\ harm_result.severity_score \in 0..100000
       /\ harm_result.severity_score < 30000 => harm_result.level = "harmless"
       /\ harm_result.severity_score >= 30000 /\ harm_result.severity_score < 70000
          => harm_result.level = "basic"
       /\ harm_result.severity_score >= 70000 => harm_result.level = "very_harmful"

\* A result with severity exactly 0.7 and level very_harmful.
C10_Witness ==
    /\ harm_result # Nothing
    /\ harm_result.severity_score = 70000
    /\ harm_result.level = "very_harmful"

\* C11: in every result classify_harm returns, escalation_required is true
\* exactly when the level is very_harmful or the returned risk factors
\* contain Violence Incitement, Health Misinformation or Discriminatory
\* Content.
C11_EscalationRule ==
    harm_result # Nothing
    => (harm_result.escalation_required
        <=> \/ harm_result.level = "very_harmful"
            \/ \E i \in 1..Len(harm_result.risk_factors) :
                  harm_result.risk_factors[i] \in {"Violence Incitement",
                                                   "Health Misinformation",
                                                   "Discriminatory Content"})

\* A basic-level result that escalates because of Health Misinformation.
C11_Witness ==
    /\ harm_result # Nothing
    /\ harm_result.level = "basic"
    /\ harm_result.escalation_required
    /\ Contains(harm_result.risk_factors, "Health Misinformation")

\* C12: every result classify_harm returns for the verdict true has level
\* harmless.
C12_TrueIsHarmless ==
    harm_result # Nothing /\ harm_verdict = "true" => harm_result.level = "harmless"

\* A text whose base severity is the maximum 1.0, classified under the
\* verdict true: severity 0.2, level harmless.
C12_Witness ==
    /\ harm_result # Nothing
    /\ harm_verdict = "true"
    /\ harm_result.severity_score = 20000
    /\ harm_result.level = "harmless"

\* C13: every call of classify_harm returns a classification, and a call
\* whose analysis fails returns level basic, confidence 0.3, no escalation
\* and the single risk factor 'Analysis unavailable'.
C13_FallbackOnFailure ==
    harm_verdict # None
    => /\ DOMAIN harm_result = {"level", "confidence", "severity_score", "risk_factors",
                                "suggested_actions", "escalation_required"}
       /\ harm_verdict = NotAString
          => /\ harm_result.level = "basic"
             /\ harm_result.confidence = 300000
             /\ harm_result.escalation_required = FALSE
             /\ harm_result.risk_factors = <<"Analysis unavailable">>

\* The analysis of a text with violence patterns failed and the fallback
\* was returned.
C13_Witness ==
    /\ harm_verdict = NotAString
    /\ harm_text.violence_patterns > 0
    /\ harm_result.level = "basic"
    /\ harm_result.risk_factors = <<"Analysis unavailable">>

C15_ConfidenceInUnitInterval ==
    /\ \A i \in RunIds :
          runs[i].verification_result # Nothing
          => runs[i].verification_result.confidence \in 0..100
    /\ \A c \in DOMAIN verifications : verifications[c].confidence_score \in 0..100
    /\ \A c \in StoredClaims :
          claims[c].status = "completed" => claims[c].confidence_score \in 0..100

\* Each implementation of verify_claim returns one of the four verdicts for
\* every answer of the model: the verdict of the answer when it is one of
\* the four, unverified otherwise.
VerdictNormalized ==
    \A raw \in RawResponses :
        LET vertex == VertexAIService_verify_claim(raw).verdict
            gemini == GeminiAIService_verify_claim(raw).verdict
        IN /\ vertex \in Verdicts /\ gemini \in Verdicts
           /\ (raw.kind # "json" \/ raw.verdict \notin Verdicts)
              => vertex = "unverified" /\ gemini = "unverified"
           /\ (raw.kind = "json" /\ raw.verdict \in Verdicts)
              => vertex = raw.verdict /\ gemini = raw.verdict

\* C16: the verdict verdict synthesis returned to a run, the verdict of
\* every verification record and the verdict of every completed claim are
\* one of true, false, misleading, unverified; and for every answer of the
\* model each implementation returns one of the four, unverified when the
\* answer is not JSON or its verdict is not one of the four.
C16_VerdictInClosedSet ==
    /\ \A i \in RunIds :
          runs[i].verification_result # Nothing
          => runs[i].verification_result.verdict \in Verdicts
    /\ \A c \in DOMAIN verifications : verifications[c].verdict \in Verdicts
    /\ \A c \in StoredClaims :
          claims[c].status = "completed" => claims[c].verdict \in Verdicts
    /\ VerdictNormalized

\* A run whose model answered JSON with a verdict outside the four has
\* written its verification record, and the record says unverified.
C16_Witness ==
    \E i \in RunIds :
        /\ runs[i].pc = "save_claim"
        /\ runs[i].verification_result.reasoning = "model reasoning"
        /\ runs[i].verification_result.verdict = "unverified"
        /\ runs[i].claim_id \in DOMAIN verifications
        /\ verifications[runs[i].claim_id].verdict = "unverified"

\* C17: a high-priority claim is never on the queue and every invocation
\* for it is the direct call scheduled by the submission; a normal-priority
\* claim is on the queue and no invocation for it runs inside the submitting
\* request, so its submission is answered without waiting for the pipeline.
C17_PriorityRouting ==
    \A c \in StoredClaims :
        IF claims[c].priority = "high"
        THEN /\ c \notin queue
             /\ \A i \in RunIds : runs[i].claim_id = c => runs[i].origin = "background"
        ELSE /\ c \in queue
             /\ \A i \in RunIds : runs[i].claim_id = c => runs[i].origin = "queue"
             /\ c \in DOMAIN resp /\ resp[c].status = "submitted"

\* The records of the claims other than claim_id are the same after the step.
OthersUnchanged(claim_id) ==
    \A c \in StoredClaims \ {claim_id} :
        /\ claims'[c] = claims[c]
        /\ (c \in DOMAIN verifications') = (c \in DOMAIN verifications)
        /\ c \in DOMAIN verifications => verifications'[c] = verifications[c]

\* The results process_claim_immediate can compute from claim_data alone.
OwnResults(claim_data) ==
    {final_result(f) : f \in {g \in PipelineResults(claim_data) : g.exc = None}}

\* C18: with invocations for different claims interleaved, a step of the
\* invocation for claim A leaves the claim record and the verification
\* record of every other claim as they are; the invocation works on A's
\* own submitted data; and when it ends, A's stored status and result are
\* the ones this invocation computed from A's data: completed with its own
\* result in both records, or failed with its own error.
C18_CrossClaimIsolation ==
    [][\A i \in RunIds :
          runs'[i] # runs[i]
          => LET run == runs[i]
                 A == run.claim_id
             IN /\ OthersUnchanged(A)
                /\ run.claim_data = ClaimData(claims[A])
                /\ (run.pc = "save_claim" /\ claims'[A] # claims[A])
                   => /\ run.final \in OwnResults(run.claim_data)
                      /\ claims'[A].status = "completed"
                      /\ verifications'[A] = run.final
                      /\ \A k \in ResultFields : claims'[A][k] = run.final[k]
                /\ (run.pc = "except" /\ claims'[A] # claims[A])
                   => /\ claims'[A].status = "failed"
                      /\ claims'[A].error = run.exc]_vars

\* Two invocations for different claims are both between the write of the
\* verification record and the write of the completion, with different
\* results, and each record holds the result of its own invocation.
C18_Witness ==
    \E i, j \in RunIds :
        /\ runs[i].claim_id # runs[j].claim_id
        /\ runs[i].pc = "save_claim" /\ runs[j].pc = "save_claim"
        /\ runs[i].final.verdict # runs[j].final.verdict
        /\ verifications[runs[i].claim_id] = runs[i].final
        /\ verifications[runs[j].claim_id] = runs[j].final

\* C19: when the store accepts every write and every invocation keeps being
\* resumed, a claim whose stored status is processing eventually has the
\* stored status completed or failed.
C19_ProcessingEnds ==
    \A c \in ClaimIds :
        (c \in StoredClaims /\ claims[c].status = "processing")
        ~> (c \in StoredClaims /\ claims[c].status \in {"completed", "failed"})

\* A claim that was processing ended failed because a stage raised.
C19_Witness ==
    \E c \in StoredClaims :
        /\ claims[c].status = "failed"
        /\ claims[c].error = SearchMessage

\* The six steps a trail can hold, in pipeline order.
StepOrder ==
    <<"ocr", "translation", "claim_detection", "knowledge_retrieval",
      "verification", "harm_classification">>

\* The trail of a claim document: the steps of StepOrder in order, each
\* once, with ocr kept exactly when the claim has an image and no text and
\* translation kept exactly when its language is not "en".
KeptStep(doc, step) ==
    /\ step = "ocr" => Truthy(doc.image_url) /\ ~Truthy(doc.text)
    /\ step = "translation" => doc.language # "en"

ExpectedTrail(doc) ==
    LET kept == {k \in 1..Len(StepOrder) : KeptStep(doc, StepOrder[k])}
        nth[n \in 1..Cardinality(kept)] ==
            CHOOSE k \in kept : Cardinality({j \in kept : j < k}) = n - 1
    IN [n \in 1..Cardinality(kept) |-> StepOrder[nth[n]]]

\* C20: every completed claim has a verification record whose step trail is
\* an in-order subsequence of StepOrder without repetition that holds the
\* last four steps, ocr exactly when the claim has an image and no text and
\* translation exactly when its language is not "en" (that is, the trail is
\* ExpectedTrail of the claim), however many invocations there were before;
\* and an invocation that has not taken a step has an empty trail.
C20_StepTrail ==
    /\ \A c \in StoredClaims :
          claims[c].status = "completed"
          => /\ c \in DOMAIN verifications
             /\ verifications[c].processing_steps = ExpectedTrail(claims[c])
             /\ NoDuplicates(verifications[c].processing_steps)
             /\ \A k \in 3..6 :
                   Contains(verifications[c].processing_steps, StepOrder[k])
    /\ \A i \in RunIds : runs[i].pc = "start" => runs[i].steps = <<>>

\* After an earlier invocation, a claim submitted as an image in another
\* language is completed with all six steps in its trail.
C20_Witness ==
    /\ Len(runs) >= 2
    /\ RunIds = {}
    /\ \E c \in StoredClaims :
          /\ claims[c].status = "completed"
          /\ verifications[c].processing_steps = StepOrder

\* The position in calls of the call of a collaborator, 0 when not called.
CallOf(f, name) ==
    IF Contains(f.calls, name)
    THEN CHOOSE k \in 1..Len(f.calls) : f.calls[k] = name
    ELSE 0

AfterTranslation ==
    {"claim_detection", "knowledge_retrieval", "verification", "harm_classification"}

\* The frames steps 1 to 8 end in, stage by stage, are the frames of
\* PipelineResults.
StagesAgree ==
    (stages # Nothing /\ stages.at \in {"done", "except"})
    => stages.f \in PipelineResults(stages.claim_data)

\* C21: translation is never called for a claim declared 'en'; when it is
\* called and fails, the run is not in the exception handler right after it,
\* a translation step is in the trail, and claim detection, retrieval,
\* verification and harm classification are each given the text that
\* translation was given.
C21_TranslationDegrades ==
    stages # Nothing
    => LET f == stages.f
           t == CallOf(f, "translation")
       IN /\ stages.claim_data.language = "en" => t = 0
          /\ (stages.claim_data.language # "en" /\ stages.at \notin {"acquire", "translate"}
                /\ Contains(f.calls, "claim_detection"))
             => t # 0
          /\ "translation" \in stages.failed
             => /\ t # 0
                /\ Contains(f.steps, "translation")
                /\ Last(f.calls) = "translation" => f.exc = None /\ stages.at = "detect"
                /\ \A k \in 1..Len(f.calls) :
                      f.calls[k] \in AfterTranslation => f.received[k] = f.received[t]

\* A run whose translation failed has passed harm classification.
C21_Witness ==
    /\ stages # Nothing
    /\ "translation" \in stages.failed
    /\ stages.claim_data.language = "hi"
    /\ stages.at = "done"
    /\ Contains(stages.f.calls, "harm_classification")
    /\ stages.f.received[CallOf(stages.f, "harm_classification")] = "claim"

\* C22: the claim list given to the search is never empty, and when claim
\* detection returned no claim or failed inside, it is the one-element list
\* holding the text that detection was given; the run is not in the
\* exception handler right after detection.
C22_SearchGetsAClaim ==
    stages # Nothing
    => LET f == stages.f
           d == CallOf(f, "claim_detection")
       IN /\ (d # 0 /\ Last(f.calls) = "claim_detection") => f.exc = None
          /\ Contains(f.calls, "knowledge_retrieval")
             => /\ f.searched # <<>>
                /\ (f.claims_detected = <<>> \/ "claim_detection" \in stages.failed)
                   => f.searched = <<f.received[d]>>

\* The base severity of the text classified, in 1/10^4.
BaseOfText == _calculate_base_severity(_analyze_harm_indicators(harm_text))

\* The verdict factors, in tenths.
VerdictFactor == [false |-> 10, misleading |-> 8, unverified |-> 6, true |-> 2]

\* C23: in every result classify_harm computes for a verdict string, the
\* severity score is the base severity of the text times the factor of the
\* verdict (false 1.0, misleading 0.8, unverified 0.6, true 0.2); for every
\* verdict string it is at most the base severity and between 0 and 1, and
\* for the verdict true at most 0.2 times the base severity.
C23_AdjustedSeverity ==
    (harm_result # Nothing /\ harm_verdict # NotAString)
    => LET adjusted == harm_result.severity_score
       IN /\ harm_verdict \in DOMAIN VerdictFactor
             => adjusted = BaseOfText * VerdictFactor[harm_verdict]
          /\ adjusted <= BaseOfText * 10
          /\ adjusted >= 0 /\ adjusted <= 100000
          /\ harm_verdict = "true" => adjusted <= BaseOfText * 2

\* A text whose base severity is capped at 1.0 classified under the verdict
\* true.
C23_Witness ==
    /\ harm_result # Nothing
    /\ harm_verdict = "true"
    /\ BaseOfText = 10000
    /\ harm_result.severity_score = 20000

\* C24: the base severity is the sum, over the detected categories only, of
\* the category severity (itself at most 1.0) times the category weight:
\* 0.9 health, 0.95 violence, 0.7 financial, 0.4 conspiracy and 0.5 for the
\* discriminatory, urgency, authority and emotional categories; the sum is
\* capped at 1.0.  A category that is not detected adds nothing even when its
\* severity is positive.  The verdict false has factor 1.0, so the reported
\* severity is the base severity.
CategoryWeight == [health_misinformation |-> 90, violence_incitement |-> 95,
                   financial_fraud |-> 70, conspiracy_theories |-> 40,
                   discriminatory_content |-> 50, urgency_manipulation |-> 50,
                   authority_impersonation |-> 50, emotional_manipulation |-> 50]

WeightedPart(k) ==
    LET indicator == _analyze_harm_indicators(harm_text)[k]
    IN IF indicator.detected THEN indicator.severity * CategoryWeight[k] ELSE 0

WeightedTotal ==
    WeightedPart("health_misinformation") + WeightedPart("violence_incitement")
    + WeightedPart("financial_fraud") + WeightedPart("conspiracy_theories")
    + WeightedPart("discriminatory_content") + WeightedPart("urgency_manipulation")
    + WeightedPart("authority_impersonation") + WeightedPart("emotional_manipulation")

C24_BaseSeverity ==
    (harm_result # Nothing /\ harm_verdict = "false")
    => /\ \A k \in DOMAIN CategoryWeight :
             /\ _analyze_harm_indicators(harm_text)[k].severity >= 0
             /\ _analyze_harm_indicators(harm_text)[k].severity <= 100
       /\ harm_result.severity_score
            = 10 * (IF WeightedTotal > 10000 THEN 10000 ELSE WeightedTotal)

\* A text with health keywords but no health pattern (severity 0.2, not
\* detected) and one financial pattern: the base severity is 0.25 * 0.7.
C24_Witness ==
    /\ harm_result # Nothing /\ harm_verdict = "false"
    /\ harm_text.health_keywords = 2 /\ harm_text.health_patterns = 0
    /\ harm_text.financial_patterns = 1
    /\ harm_result.severity_score = 17500

\* C25: the confidence of a classification is exactly 0.9 when no category
\* is detected, and otherwise the smaller of 0.95 and
\* 0.6 + 0.1 * (number of detected categories) + 0.3 * (adjusted severity);
\* every result, the fallback result included, has a confidence in [0, 1]
\* that does not exceed 0.95.
DetectedCount ==
    Cardinality({k \in DOMAIN CategoryWeight :
                    _analyze_harm_indicators(harm_text)[k].detected})

RawConfidence == 600000 + 100000 * DetectedCount + 3 * harm_result.severity_score

C25_Confidence ==
    harm_result # Nothing
    => /\ harm_result.confidence >= 0
       /\ harm_result.confidence <= 1000000
       /\ harm_result.confidence <= 950000
       /\ harm_verdict # NotAString
          => harm_result.confidence
               = (IF DetectedCount = 0 THEN 900000
                  ELSE IF RawConfidence > 950000 THEN 950000
                  ELSE RawConfidence)

\* Three detected categories under the verdict false: the sum is above 0.95
\* and the limit applies.
C25_Witness ==
    /\ harm_result # Nothing /\ harm_verdict = "false"
    /\ DetectedCount = 3
    /\ RawConfidence > 950000
    /\ harm_result.confidence = 950000

\* C27: the suggested actions of a classification start with the actions of
\* its harm tier in the order of the tier, are at most 4, and hold
\* "Share correct information instead" when the verdict is false and
\* "Provide complete context and missing information" when it is
\* misleading, whatever the harm level and the risk factors.
TierActions ==
    [very_harmful |-> <<"Do not share this content",
                        "Report to platform moderators",
                        "Consider reporting to relevant authorities">>,
     basic |-> <<"Share with caution and provide context",
                 "Include fact-check explanation when sharing",
                 "Encourage others to verify information">>,
     harmless |-> <<"Safe to share with fact-check context",
                    "Use as educational example of misinformation">>]

C27_SuggestedActions ==
    (harm_result # Nothing /\ harm_verdict # NotAString)
    => LET actions == harm_result.suggested_actions
           tier == TierActions[harm_result.level]
       IN /\ Len(actions) <= 4
          /\ Len(actions) >= Len(tier)
          /\ SubSeq(actions, 1, Len(tier)) = tier
          /\ harm_verdict = "false"
             => Contains(actions, "Share correct information instead")
          /\ harm_verdict = "misleading"
             => Contains(actions, "Provide complete context and missing information")

\* C26: the risk factors of a classification list every detected category
\* whose severity is above 0.3, in the fixed order of the categories and at
\* most 5 of them, and no other category; besides these, "Long-form
\* content" is listed whenever the text is longer than 500 characters and
\* "Viral spread potential" whenever the text has a share imperative,
\* however many categories are listed.
Qualifies(k) ==
    LET indicator == _analyze_harm_indicators(harm_text)[k]
    IN indicator.detected /\ indicator.severity > 30

IsCategoryTitle(title) == \E k \in DOMAIN TitleOf : TitleOf[k] = title

C26_RiskFactors ==
    (harm_result # Nothing /\ harm_text.is_str /\ harm_verdict # NotAString)
    => LET risk_factors == harm_result.risk_factors
           qualifying == SelectSeq(IndicatorTypes, Qualifies)
           listed == SelectSeq(risk_factors, IsCategoryTitle)
       IN /\ Len(listed) = (IF Len(qualifying) > 5 THEN 5 ELSE Len(qualifying))
          /\ \A i \in 1..Len(listed) : listed[i] = TitleOf[qualifying[i]]
          /\ harm_text.long => Contains(risk_factors, "Long-form content")
          /\ harm_text.share => Contains(risk_factors, "Viral spread potential")

\* C28: when a category detector raises, classify_harm returns a result
\* computed from the categories that did not fail, with the failing
\* category as not detected, and not the fixed fallback result.
C28_DetectorErrorDegrades ==
    (harm_result # Nothing /\ ~harm_text.is_str /\ harm_verdict # NotAString)
    => /\ harm_result # _create_fallback_classification
       /\ harm_result.severity_score = 0
       /\ harm_result.level = "harmless"

C30_EmptySubmissionIs400 ==
    rejected # Nothing
    => /\ rejected.status_code = 400
       /\ rejected.detail = "Either text or image must be provided"
       /\ rejected.status_code # 500

====
